---- MODULE Spec2Model ----
(***************************************************************************)
(* Vienna Cabaret Theater API (src/main.py, src/schemas.py): the document  *)
(* store's collections, the reservation handler create_reservation as the  *)
(* sequence of storage calls it makes (requests interleave between calls), *)
(* the seed handler, and the two video look-ups.                           *)
(*                                                                         *)
(* Representation.  An event id is a Python str, modelled as the sequence  *)
(* of its character codes, so that bson.ObjectId's parse (24 hex digits,   *)
(* either case) is computed and not assumed.  A month key is a TLA+ string *)
(* built by strftime("%Y-%m") from the clock.  An optional document (the   *)
(* result of find_one) is a set holding no or one document.  The requests   *)
(* being served are a bag of handler activations: the handlers share       *)
(* nothing but the store, so which thread runs which is immaterial.        *)
(***************************************************************************)
EXTENDS Integers, Sequences, FiniteSets, Bags, TLC

(***************************************************************************)
(* Bounds of the model.                                                    *)
(***************************************************************************)
\* Requests started in one behaviour; any number of them run at the same time.
MaxCalls == 3
\* Last tick of the clock.
MaxClock == 2

(***************************************************************************)
(* Program constants.                                                      *)
(***************************************************************************)
\* schemas.py:27  tickets: int = Field(..., ge=1, le=10)
MinTickets == 1
MaxTickets == 10
\* main.py:217-218, 228-229, 239-240  seats of the three demo events
SeatsEvening == 60
SeatsWorkshop == 20

(***************************************************************************)
(* Strings as character codes.                                             *)
(***************************************************************************)
\* The value of a hexadecimal digit, -1 for any other character:
\* '0'..'9' are 48..57, 'A'..'F' are 65..70, 'a'..'f' are 97..102.
HexVal(ch) ==
    IF ch >= 48 /\ ch <= 57 THEN ch - 48
    ELSE IF ch >= 65 /\ ch <= 70 THEN ch - 55
    ELSE IF ch >= 97 /\ ch <= 102 THEN ch - 87
    ELSE -1

\* Length of an ObjectId in bytes; its str() has two hex digits per byte.
OidBytes == 12

\* ASCII white space: tab, line feed, vertical tab, form feed, carriage
\* return, space.
IsSpace(ch) == (ch >= 9 /\ ch <= 13) \/ ch = 32

\* bytes.fromhex on s from position i: white space before a byte is skipped,
\* then two hex digits make one byte; anything else is a ValueError (ok
\* FALSE).
RECURSIVE FromHex(_, _)
FromHex(s, i) ==
    IF i > Len(s) THEN [ok |-> TRUE, bytes |-> <<>>]
    ELSE IF IsSpace(s[i]) THEN FromHex(s, i + 1)
    ELSE IF i + 1 > Len(s) \/ HexVal(s[i]) < 0 \/ HexVal(s[i + 1]) < 0
         THEN [ok |-> FALSE, bytes |-> <<>>]
    ELSE LET rest == FromHex(s, i + 2)
         IN  IF rest.ok
             THEN [ok |-> TRUE,
                   bytes |-> <<16 * HexVal(s[i]) + HexVal(s[i + 1])>> \o rest.bytes]
             ELSE rest

\* bson.ObjectId(s) accepts a str of exactly 24 characters that
\* bytes.fromhex accepts (so white space between bytes passes).
IsValidOid(s) ==
    /\ Len(s) = 2 * OidBytes
    /\ FromHex(s, 1).ok

\* bson.ObjectId(s) for an accepted s: the bytes bytes.fromhex returns, 12
\* when s has no white space and fewer when it has.
ParseOid(s) == [kind |-> "oid", val |-> FromHex(s, 1).bytes]

\* A document key that is a plain string (not an ObjectId).
StrId(s) == [kind |-> "str", val |-> s]

\* The ObjectId the driver generates for the n-th document inserted into a
\* collection (insert_one on a document with no _id): one no document has.
GenOid(n) == [kind |-> "oid", val |-> [i \in 1..OidBytes |-> IF i = OidBytes THEN n ELSE 0]]

(***************************************************************************)
(* The clock: datetime.utcnow() and strftime("%Y-%m").                     *)
(***************************************************************************)
\* Tick 0 and 1 fall in December 2026, tick 2 and 3 in January 2027, ...
MonthIndex(t) == (2026 * 12 + 11) + (t \div 2)
YearOf(t) == MonthIndex(t) \div 12
MonthOf(t) == (MonthIndex(t) % 12) + 1

Digit(d) == CASE d = 0 -> "0" [] d = 1 -> "1" [] d = 2 -> "2" [] d = 3 -> "3"
              [] d = 4 -> "4" [] d = 5 -> "5" [] d = 6 -> "6" [] d = 7 -> "7"
              [] d = 8 -> "8" [] d = 9 -> "9"

\* %Y: the year in four digits; %m: the month in two digits, zero padded.
FmtYear(y) == Digit(y \div 1000) \o Digit((y \div 100) % 10)
                \o Digit((y \div 10) % 10) \o Digit(y % 10)
FmtMonth(m) == Digit(m \div 10) \o Digit(m % 10)

\* datetime.strftime("%Y-%m") of the instant t.
month_key_of(t) == FmtYear(YearOf(t)) \o "-" \o FmtMonth(MonthOf(t))

(***************************************************************************)
(* The store and the requests in flight.                                   *)
(***************************************************************************)
VARIABLES
    event,          \* db["event"]: documents [_id, seats_total, seats_available, created_at, updated_at]
    reservation,    \* db["reservation"]: documents [_id, event_id, tickets, created_at]
    video,          \* db["video"]: documents [_id, month_key, video_url, created_at]
    theater,        \* db["theater"]: documents [_id, name, created_at]
    ownerprofile,   \* db["ownerprofile"]: documents [_id, name, created_at]
    now,            \* datetime.utcnow(), in ticks
    active,         \* the handler activations in flight (a bag), each with its locals
    last,           \* the activation that answered in the last step, with its HTTP
                    \* status and body; NoActivation when the last step answered nothing
    calls,          \* requests started so far
    seats_at_start, \* history: [_id, seats] of each event as it entered the store
    failed,         \* history: some storage call has failed
    seeding         \* history of the seed calls: [completed, overlapped]

vars == <<event, reservation, video, theater, ownerprofile, now, active, last,
          calls, seats_at_start, failed, seeding>>

store == <<event, reservation, video, theater, ownerprofile>>

(***************************************************************************)
(* Handler activations.  op is the handler, pc the line it is at; res,     *)
(* event_l (`event`) and key are the handlers' locals.  alone, attempts    *)
(* and writes are history: whether no other request ran during this one,   *)
(* how many find_one_and_update calls it made, how many times it changed   *)
(* the store.  status and ret are the response (0: none yet); in `last`,   *)
(* pc is the line the handler answered from.                               *)
(***************************************************************************)
NoReservation == [event_id |-> <<>>, tickets |-> 0]

Activation(name, line) ==
    [op |-> name, pc |-> line, res |-> NoReservation, event_l |-> {}, key |-> "",
     alone |-> BagToSet(active) = {}, attempts |-> 0, writes |-> 0, status |-> 0, ret |-> {},
     since |-> now]

NoActivation ==
    [op |-> "", pc |-> "done", res |-> NoReservation, event_l |-> {}, key |-> "",
     alone |-> TRUE, attempts |-> 0, writes |-> 0, status |-> 0, ret |-> {}, since |-> 0]

\* The activations in flight once another request has started: none is alone.
Joined(b) ==
    LET S == {[a EXCEPT !.alone = FALSE] : a \in BagToSet(b)}
        n(x) == IF BagIn(x, b) THEN CopiesIn(x, b) ELSE 0
    IN  [x \in S |-> n(x) + n([x EXCEPT !.alone = TRUE])]

\* A request arrives and runs to its first storage call's end: it either
\* answers at once (code # 0) or is left in flight as `a`.
Begin(a, code) ==
    /\ calls < MaxCalls
    /\ calls' = calls + 1
    /\ IF code = 0
       THEN /\ active' = Joined(active) (+) SetToBag({a})
            /\ last' = NoActivation
       ELSE /\ active' = Joined(active)
            /\ last' = [a EXCEPT !.status = code]

\* The activation a goes on as a2, from the present instant.
Goto(a, a2) ==
    /\ active' = (active (-) SetToBag({a})) (+) SetToBag({[a2 EXCEPT !.since = now]})
    /\ last' = NoActivation

\* The activation a answers, as a2, with an HTTP status.
Respond(a, a2, code) ==
    /\ active' = active (-) SetToBag({a})
    /\ last' = [a2 EXCEPT !.status = code]

\* The instants at which the activation a can have read the clock for the
\* storage call that takes effect now: the handler reads it (as at line 99)
\* after its previous step and before the call, and time may pass between
\* the read and the call's effect.
ClockReads(a) == a.since..now

(***************************************************************************)
(* Storage primitives (pymongo).                                           *)
(***************************************************************************)
\* collection.find_one({"_id": id}): the document with that key, if any.
FindById(coll, id) == {d \in coll : d._id = id}

\* Mutants of the filter: the seat condition left out; > for $gte.
MatchesFilter_IdOnly(d, id, tickets) == d._id = id
MatchesFilter_Strict(d, id, tickets) == d._id = id /\ d.seats_available > tickets

\* The filter of line 98: {"_id": event["_id"], "seats_available": {"$gte": tickets}}.
MatchesFilter(d, id, tickets) == d._id = id /\ d.seats_available >= tickets

\* Mutant of the update: one seat too few is taken.
ApplyUpdate_OffByOne(d, tickets, t) ==
    [d EXCEPT !.seats_available = d.seats_available - (tickets - 1), !.updated_at = t]

\* The update of line 99: $inc seats_available by -tickets, $set updated_at.
ApplyUpdate(d, tickets, t) ==
    [d EXCEPT !.seats_available = d.seats_available - tickets, !.updated_at = t]

\* Mutants of find_one_and_update: the document is chosen by its key alone;
\* the update is applied first and the seat condition looked at afterwards.
FindOneAndUpdate_AnyDoc(coll, id, tickets, t) ==
    LET hit == {d \in coll : d._id = id}
    IN  IF hit = {} THEN [coll |-> coll, updated |-> {}]
        ELSE LET d == CHOOSE x \in hit : TRUE
             IN  [coll    |-> (coll \ {d}) \cup {ApplyUpdate(d, tickets, t)},
                  updated |-> {ApplyUpdate(d, tickets, t)}]
FindOneAndUpdate_ApplyThenCheck(coll, id, tickets, t) ==
    LET hit == {d \in coll : d._id = id}
    IN  IF hit = {} THEN [coll |-> coll, updated |-> {}]
        ELSE LET d == CHOOSE x \in hit : TRUE
             IN  [coll    |-> (coll \ {d}) \cup {ApplyUpdate(d, tickets, t)},
                  updated |-> IF d.seats_available >= tickets
                              THEN {ApplyUpdate(d, tickets, t)} ELSE {}]

\* find_one_and_update(filter, update, return_document=AFTER): the collection
\* afterwards and the updated document ({} when no document matched).  One
\* storage operation: the filter is evaluated on the document it updates.
FindOneAndUpdate(coll, id, tickets, t) ==
    LET hit == {d \in coll : MatchesFilter(d, id, tickets)}
    IN  IF hit = {} THEN [coll |-> coll, updated |-> {}]
        ELSE LET d == CHOOSE x \in hit : TRUE
             IN  [coll    |-> (coll \ {d}) \cup {ApplyUpdate(d, tickets, t)},
                  updated |-> {ApplyUpdate(d, tickets, t)}]

(***************************************************************************)
(* create_document (database.py, not among the sources): inserts the       *)
(* record under a generated ObjectId, stamped with the creation time.      *)
(***************************************************************************)
inserted_id(coll) == GenOid(Cardinality(coll) + 1)

create_document(coll, fields, t) ==
    coll \cup {[f \in (DOMAIN fields) \cup {"_id", "created_at"} |->
                   IF f = "_id" THEN inserted_id(coll)
                   ELSE IF f = "created_at" THEN t
                   ELSE fields[f]]}

(***************************************************************************)
(* create_reservation (main.py:76-106).                                    *)
(***************************************************************************)
\* Pydantic's validation of the body (schemas.py:27): 1 <= tickets <= 10.
ValidReservation(r) == r.tickets >= MinTickets /\ r.tickets <= MaxTickets

\* Mutant of line 92: <= for <.
NotEnoughSeats_Strict(doc, tickets) == doc.seats_available <= tickets

\* Line 92: int(event.get("seats_available", 0)) < res.tickets.
NotEnoughSeats(doc, tickets) == doc.seats_available < tickets

\* Mutant of lines 89-93: a missing event is reported as a lack of seats.
PreCheck_NoNotFound(found, tickets) ==
    IF found = {} \/ \E d \in found : NotEnoughSeats(d, tickets) THEN 400 ELSE 0

\* Lines 89-93 on the looked-up `event`: the status raised, 0 to go on.
PreCheck(found, tickets) ==
    IF found = {} THEN 404
    ELSE IF \E d \in found : NotEnoughSeats(d, tickets) THEN 400
    ELSE 0

\* The event ids requests name: the str() of an ObjectId in upper case, a
\* string that is no ObjectId ("demo"), and 24 characters that ObjectId()
\* accepts as 8 bytes ("0A 0A 0A ... ").
HexA == [i \in 1..(2 * OidBytes) |-> IF i % 2 = 1 THEN 48 ELSE 65]
Demo == <<100, 101, 109, 111>>
Spaced == [i \in 1..(2 * OidBytes) |-> IF i % 3 = 1 THEN 48 ELSE IF i % 3 = 2 THEN 65 ELSE 32]
EventIdInputs == {HexA, Demo, Spaced}

\* The ticket counts requests carry: the least and the greatest valid one,
\* and the one beyond each end.
TicketInputs == {MinTickets - 1, MinTickets, MaxTickets, MaxTickets + 1}

\* Every ticket count for the two ids that can name an event; the least
\* valid one for the id that names none.
ReservationInputs ==
    [event_id : {HexA, Demo}, tickets : TicketInputs]
        \cup {[event_id |-> Spaced, tickets |-> MinTickets]}

\* Lines 84-87 when the storage call made succeeds: find_one by
\* ObjectId(res.event_id), or by the string when it is no ObjectId.
Lookup(events, s) ==
    IF IsValidOid(s) THEN FindById(events, ParseOid(s)) ELSE FindById(events, StrId(s))

\* Lines 89-93 after a look-up returned `found`: 404, 400, or on to line 97.
Checked(a, found) == [a EXCEPT !.event_l = found, !.pc = "L97"]

\* POST /api/reservations arrives: the body is validated (422 before the
\* handler runs), then line 79's find_one, whose result `ev` is never used.
\* up: whether that storage call succeeds.
post_reservation(r, up) ==
    LET a == [Activation("create_reservation", "L85") EXCEPT !.res = r]
    IN  /\ IF ~ValidReservation(r) THEN Begin(a, 422)
           ELSE IF ~up THEN Begin(a, 500)
           ELSE Begin(a, 0)
        /\ failed' = (failed \/ (ValidReservation(r) /\ ~up))
        /\ UNCHANGED <<store, now, seats_at_start, seeding>>

\* Lines 84-93, the storage call that follows line 79.  When ObjectId()
\* accepts res.event_id it is line 85's find_one, whose failure is caught
\* like ObjectId()'s and leads to line 87; when ObjectId() raises, it is
\* line 87's find_one by the string.  Then the checks of lines 89-93.
lookup_by_oid(a, up) ==
    LET found == Lookup(event, a.res.event_id)
    IN  /\ BagIn(a, active)
        /\ a.pc = "L85"
        /\ IF ~up
           THEN IF IsValidOid(a.res.event_id)
                THEN Goto(a, [a EXCEPT !.pc = "L87"])
                ELSE Respond(a, [a EXCEPT !.pc = "L87"], 500)
           ELSE IF PreCheck(found, a.res.tickets) = 0 THEN Goto(a, Checked(a, found))
           ELSE Respond(a, Checked(a, found), PreCheck(found, a.res.tickets))
        /\ failed' = (failed \/ ~up)
        /\ UNCHANGED <<store, now, calls, seats_at_start, seeding>>

\* Line 87 after a failed storage call at line 85: find_one by the string.
lookup_by_str(a, up) ==
    LET found == FindById(event, StrId(a.res.event_id))
    IN  /\ BagIn(a, active)
        /\ a.pc = "L87"
        /\ IF ~up THEN Respond(a, a, 500)
           ELSE IF PreCheck(found, a.res.tickets) = 0 THEN Goto(a, Checked(a, found))
           ELSE Respond(a, Checked(a, found), PreCheck(found, a.res.tickets))
        /\ failed' = (failed \/ ~up)
        /\ UNCHANGED <<store, now, calls, seats_at_start, seeding>>

\* Lines 97-103: the conditional decrement; 409 when nothing matched.  The
\* update carries the datetime.utcnow() of line 99, read before the call.
decrement_seats(a, up) ==
    LET id == (CHOOSE d \in a.event_l : TRUE)._id
    IN  /\ BagIn(a, active)
        /\ a.pc = "L97"
        /\ IF ~up
           THEN /\ Respond(a, [a EXCEPT !.attempts = a.attempts + 1], 500)
                /\ UNCHANGED event
           ELSE \E t \in ClockReads(a) :
                  LET r  == FindOneAndUpdate(event, id, a.res.tickets, t)
                      a2 == [a EXCEPT !.attempts = a.attempts + 1,
                                      !.writes = IF r.coll = event THEN a.writes
                                                 ELSE a.writes + 1,
                                      !.pc = "L105"]
                  IN  /\ event' = r.coll
                      /\ IF r.updated = {} THEN Respond(a, a2, 409) ELSE Goto(a, a2)
        /\ failed' = (failed \/ ~up)
        /\ UNCHANGED <<reservation, video, theater, ownerprofile, now, calls, seats_at_start,
                       seeding>>

\* Lines 105-106: record res.model_dump() as a Reservation and answer 200.
insert_reservation(a, up) ==
    /\ BagIn(a, active)
    /\ a.pc = "L105"
    /\ IF ~up
       THEN /\ Respond(a, a, 500)
            /\ UNCHANGED reservation
       ELSE /\ \E t \in ClockReads(a) : reservation' = create_document(reservation, a.res, t)
            /\ Respond(a, [a EXCEPT !.writes = a.writes + 1], 200)
    /\ failed' = (failed \/ ~up)
    /\ UNCHANGED <<event, video, theater, ownerprofile, now, calls, seats_at_start, seeding>>

(***************************************************************************)
(* seed (main.py:159-257).                                                 *)
(***************************************************************************)
\* Mutant of line 163: seeded only once more than the three demo events exist.
AlreadySeeded_Full(events) == Cardinality(events) > 3

\* Line 163: estimated_document_count() > 0.
AlreadySeeded(events) == Cardinality(events) > 0

\* The demo events of lines 209-243, in insertion order.
DemoEvent(i, t) ==
    IF i < 3
    THEN [seats_total |-> SeatsEvening, seats_available |-> SeatsEvening, updated_at |-> t]
    ELSE [seats_total |-> SeatsWorkshop, seats_available |-> SeatsWorkshop, updated_at |-> t]

\* The owners of lines 186-203.
DemoOwner(i) == [name |-> IF i = 1 THEN "Lena Weiss" ELSE "Milo Berger"]

\* The theater of lines 169-182.
DemoTheater == [name |-> "Kabarett Salon am Kanal"]

\* The video of lines 250-254, keyed by the month of the instant t at which
\* line 251 read the clock.
DemoVideo(t) == [month_key |-> month_key_of(t), video_url |-> "coverr-theatre-actors"]

\* The order of seed's inserts: each is one storage call.
SeedLines == <<"S167", "S205a", "S205b", "S245a", "S245b", "S245c", "S248">>

LineAfter(line) ==
    IF line = "S248" THEN "done"
    ELSE SeedLines[(CHOOSE i \in 1..Len(SeedLines) : SeedLines[i] = line) + 1]

SeedRunning == \E a \in BagToSet(active) : a.op = "seed"

\* POST /api/seed arrives: line 163's count decides whether anything is done.
seed_check(up) ==
    LET a == Activation("seed", "S167")
    IN  /\ IF ~up THEN Begin(a, 500)
           ELSE IF AlreadySeeded(event) THEN Begin(a, 200)
           ELSE Begin(a, 0)
        /\ seeding' = [completed  |-> IF up /\ AlreadySeeded(event)
                                      THEN seeding.completed + 1 ELSE seeding.completed,
                       overlapped |-> seeding.overlapped \/ SeedRunning]
        /\ failed' = (failed \/ ~up)
        /\ UNCHANGED <<store, now, seats_at_start>>

\* One create_document of seed, at a.pc; after the last one seed answers 200.
\* tk: the instant line 251 reads the clock for the video's month key; t: the
\* later instant create_document stamps the record with.
seed_insert(a, up) ==
    LET line == a.pc
        a2   == [a EXCEPT !.writes = a.writes + 1, !.pc = LineAfter(line)]
    IN  /\ BagIn(a, active)
        /\ a.op = "seed"
        /\ IF ~up
           THEN /\ Respond(a, a, 500)
                /\ UNCHANGED <<event, video, theater, ownerprofile, seats_at_start, seeding>>
           ELSE /\ \E tk \in ClockReads(a) : \E t \in tk..now :
                   /\ theater' = IF line = "S167" THEN create_document(theater, DemoTheater, t)
                                 ELSE theater
                   /\ ownerprofile' =
                         CASE line = "S205a" -> create_document(ownerprofile, DemoOwner(1), t)
                           [] line = "S205b" -> create_document(ownerprofile, DemoOwner(2), t)
                           [] OTHER -> ownerprofile
                   /\ event' =
                         CASE line = "S245a" -> create_document(event, DemoEvent(1, t), t)
                           [] line = "S245b" -> create_document(event, DemoEvent(2, t), t)
                           [] line = "S245c" -> create_document(event, DemoEvent(3, t), t)
                           [] OTHER -> event
                   /\ video' = IF line = "S248" THEN create_document(video, DemoVideo(tk), t)
                               ELSE video
                /\ seats_at_start' =
                      IF line \in {"S245a", "S245b", "S245c"}
                      THEN seats_at_start \cup
                             {[_id |-> inserted_id(event),
                               seats |-> DemoEvent(IF line = "S245c" THEN 3 ELSE 1, now).seats_available]}
                      ELSE seats_at_start
                /\ IF LineAfter(line) = "done"
                   THEN /\ Respond(a, a2, 200)
                        /\ seeding' = [seeding EXCEPT !.completed = seeding.completed + 1]
                   ELSE /\ Goto(a, a2)
                        /\ UNCHANGED seeding
        /\ failed' = (failed \/ ~up)
        /\ UNCHANGED <<reservation, now, calls>>

(***************************************************************************)
(* current_video and video_by_month (main.py:138-155).                     *)
(***************************************************************************)
\* Mutant of the exact look-up: any video when none has the key.
FindByMonth_Fallback(videos, k) ==
    IF {d \in videos : d.month_key = k} = {} THEN videos
    ELSE {d \in videos : d.month_key = k}

\* find_one({"month_key": k}): the documents it may return (any one of them).
FindByMonth(videos, k) == {d \in videos : d.month_key = k}

\* Mutant of the fallback: the sort ascending.
MostRecent_Oldest(videos) == {d \in videos : \A o \in videos : o.created_at >= d.created_at}

\* find_one(sort=[("created_at", -1)]): the documents it may return.
MostRecent(videos) == {d \in videos : \A o \in videos : o.created_at <= d.created_at}

\* Video(**{k: v for k, v in doc.items() if k != "_id"}) serialised by the
\* response model: the fields of the Video schema (schemas.py:54-57).
AsVideo(doc) == [month_key |-> doc.month_key, video_url |-> doc.video_url]

\* What a handler returns for the candidates find_one chose from: None or a Video.
Returned(found) == IF found = {} THEN {{}} ELSE {{AsVideo(d)} : d \in found}

\* GET /api/video/current arrives: line 140 reads the clock for the key.
current_video ==
    LET a == [Activation("current_video", "L141") EXCEPT !.key = month_key_of(now)]
    IN  /\ Begin(a, 0)
        /\ UNCHANGED <<store, now, seats_at_start, failed, seeding>>

\* Lines 141-142, and 145-147 when a video has the key that was read.
current_video_find(a, up) ==
    /\ BagIn(a, active)
    /\ a.op = "current_video"
    /\ a.pc = "L141"
    /\ IF ~up THEN Respond(a, a, 500)
       ELSE IF FindByMonth(video, a.key) = {} THEN Goto(a, [a EXCEPT !.pc = "V144"])
       ELSE \E v \in Returned(FindByMonth(video, a.key)) :
                Respond(a, [a EXCEPT !.ret = v], 200)
    /\ failed' = (failed \/ ~up)
    /\ UNCHANGED <<store, now, calls, seats_at_start, seeding>>

\* Lines 143-147: the fallback to the most recently created video.
current_video_fallback(a, up) ==
    /\ BagIn(a, active)
    /\ a.op = "current_video"
    /\ a.pc = "V144"
    /\ IF ~up THEN Respond(a, a, 500)
       ELSE \E v \in Returned(MostRecent(video)) : Respond(a, [a EXCEPT !.ret = v], 200)
    /\ failed' = (failed \/ ~up)
    /\ UNCHANGED <<store, now, calls, seats_at_start, seeding>>

\* The month keys requests name: the months the clock can show, the month
\* before, and a key of no month.
MonthKeyInputs == {month_key_of(t) : t \in (-2)..MaxClock} \cup {"latest"}

\* GET /api/video/{month_key}, lines 151-155.
video_by_month(k, up) ==
    LET a == [Activation("video_by_month", "L152") EXCEPT !.key = k]
    IN  /\ IF ~up THEN Begin(a, 500)
           ELSE \E v \in Returned(FindByMonth(video, k)) : Begin([a EXCEPT !.ret = v], 200)
        /\ failed' = (failed \/ ~up)
        /\ UNCHANGED <<store, now, seats_at_start, seeding>>

\* Time passes.
Tick ==
    /\ now < MaxClock
    /\ now' = now + 1
    /\ last' = NoActivation
    /\ UNCHANGED <<store, active, calls, seats_at_start, failed, seeding>>

(***************************************************************************)
(* Initial stores: what an administrator put there before the first        *)
(* request.  Every document satisfies its schema (schemas.py:19-20).       *)
(***************************************************************************)
AdminOid(b) == [kind |-> "oid", val |-> [i \in 1..OidBytes |-> b]]

AdminEvent(id, total, available) ==
    [_id |-> id, seats_total |-> total, seats_available |-> available,
     created_at |-> -2, updated_at |-> -2]

AdminVideo(b, k, t) ==
    [_id |-> AdminOid(b), month_key |-> k, video_url |-> k, created_at |-> t]

\* No event; an event under an ObjectId, with 1 of its 5 seats left; an event
\* under the string "demo" and one under a string of 24 hex digits.
EventStores ==
    { {},
      {AdminEvent(ParseOid(HexA), 5, 1)},
      {AdminEvent(StrId(Demo), 11, 11), AdminEvent(StrId(HexA), 3, 3)} }

\* No video; one of last month; two of earlier months, the older month created
\* last; one of this month and a later-created one of last month.
VideoStores ==
    { {},
      {AdminVideo(21, "2026-11", -2)},
      {AdminVideo(21, "2026-11", -2), AdminVideo(22, "2026-10", -1)},
      {AdminVideo(21, "2026-12", -2), AdminVideo(22, "2026-11", -1)} }

\* The store and the activation of a seed call that has reached line 248 at
\* the instant t: everything but the video is inserted.
SeededTheater(t) == create_document({}, DemoTheater, t)
SeededOwners(t) == create_document(create_document({}, DemoOwner(1), t), DemoOwner(2), t)
SeededEvents(t) ==
    create_document(create_document(create_document({}, DemoEvent(1, t), t),
                                    DemoEvent(2, t), t),
                    DemoEvent(3, t), t)
SeedAtVideo ==
    [op |-> "seed", pc |-> "S248", res |-> NoReservation, event_l |-> {}, key |-> "",
     alone |-> TRUE, attempts |-> 0, writes |-> 6, status |-> 0, ret |-> {}, since |-> 0]

InitWith(events, videos, theaters, owners, running) ==
    /\ event = events
    /\ video = videos
    /\ reservation = {}
    /\ theater = theaters
    /\ ownerprofile = owners
    /\ now = 0
    /\ active = SetToBag(running)
    /\ last = NoActivation
    /\ calls = Cardinality(running)
    /\ seats_at_start = {[_id |-> d._id, seats |-> d.seats_available] : d \in events}
    /\ failed = FALSE
    /\ seeding = [completed |-> 0, overlapped |-> FALSE]

(***************************************************************************)
(* The reservation service: requests to POST /api/reservations on the      *)
(* events an administrator created.  The clock stands still: the handler   *)
(* writes the time and never reads it.                                     *)
(***************************************************************************)
Init == \E events \in EventStores : InitWith(events, {}, {}, {}, {})

Next ==
    \/ \E r \in ReservationInputs, up \in BOOLEAN : post_reservation(r, up)
    \/ \E a \in BagToSet(active), up \in BOOLEAN : lookup_by_oid(a, up)
    \/ \E a \in BagToSet(active), up \in BOOLEAN : lookup_by_str(a, up)
    \/ \E a \in BagToSet(active), up \in BOOLEAN : decrement_seats(a, up)
    \/ \E a \in BagToSet(active), up \in BOOLEAN : insert_reservation(a, up)

Spec == Init /\ [][Next]_vars

(***************************************************************************)
(* The race of the spec's section 8: an event with 5 seats left, under an  *)
(* ObjectId or under the string "demo", and two requests for 3 tickets.    *)
(***************************************************************************)
InitRace ==
    \E id \in {ParseOid(HexA), StrId(Demo)} : InitWith({AdminEvent(id, 5, 5)}, {}, {}, {}, {})

NextRace ==
    \/ /\ calls < 2
       /\ \E id \in EventIdInputs, up \in BOOLEAN :
              /\ Lookup(event, id) # {}
              /\ post_reservation([event_id |-> id, tickets |-> 3], up)
    \/ \E a \in BagToSet(active), up \in BOOLEAN : lookup_by_oid(a, up)
    \/ \E a \in BagToSet(active), up \in BOOLEAN : lookup_by_str(a, up)
    \/ \E a \in BagToSet(active), up \in BOOLEAN : decrement_seats(a, up)
    \/ \E a \in BagToSet(active), up \in BOOLEAN : insert_reservation(a, up)
    \/ Tick

SpecRace == InitRace /\ [][NextRace]_vars

(***************************************************************************)
(* Seeding: calls to POST /api/seed, one after another or at once, on an   *)
(* empty store and on one that holds an event.                             *)
(***************************************************************************)
InitSeed ==
    \E events \in {{}, {AdminEvent(ParseOid(HexA), 5, 5)}} : InitWith(events, {}, {}, {}, {})

NextSeed ==
    \/ \E up \in BOOLEAN : seed_check(up)
    \/ \E a \in BagToSet(active), up \in BOOLEAN : seed_insert(a, up)

SpecSeed == InitSeed /\ [][NextSeed]_vars

(***************************************************************************)
(* The video look-ups, as time passes and as a seed call in flight adds    *)
(* this month's video.                                                     *)
(***************************************************************************)
InitVideo ==
    \E videos \in VideoStores :
        \/ InitWith({AdminEvent(ParseOid(HexA), 5, 5)}, videos, {}, {}, {})
        \/ InitWith(SeededEvents(0), videos, SeededTheater(0), SeededOwners(0), {SeedAtVideo})

NextVideo ==
    \/ Tick
    \/ current_video
    \/ \E a \in BagToSet(active), up \in BOOLEAN : current_video_find(a, up)
    \/ \E a \in BagToSet(active), up \in BOOLEAN : current_video_fallback(a, up)
    \/ \E k \in MonthKeyInputs, up \in BOOLEAN : video_by_month(k, up)
    \/ \E a \in BagToSet(active), up \in BOOLEAN : seed_insert(a, up)

SpecVideo == InitVideo /\ [][NextVideo]_vars

(***************************************************************************)
(* Vocabulary of the properties.                                           *)
(***************************************************************************)
\* The event id string s names the document d: as the string it is, or as
\* the ObjectId it spells.
Names(s, d) ==
    \/ d._id = [kind |-> "str", val |-> s]
    \/ IsValidOid(s) /\ d._id = ParseOid(s)

CurrentSeats(id) == (CHOOSE d \in event : d._id = id).seats_available
StartSeats(id) == (CHOOSE x \in seats_at_start : x._id = id).seats

RECURSIVE TicketSum(_)
TicketSum(S) ==
    IF S = {} THEN 0
    ELSE LET r == CHOOSE x \in S : TRUE IN r.tickets + TicketSum(S \ {r})

\* Tickets of the Reservation documents recorded for d, tickets of the
\* requests about to record one (at line 105), seats taken from d so far.
Recorded(d) == TicketSum({r \in reservation : Names(r.event_id, d)})

RECURSIVE PendingSum(_, _)
PendingSum(S, d) ==
    IF S = {} THEN 0
    ELSE LET a == CHOOSE x \in S : TRUE
         IN  (IF a.pc = "L105" /\ \E e \in a.event_l : e._id = d._id
              THEN a.res.tickets * CopiesIn(a, active) ELSE 0)
             + PendingSum(S \ {a}, d)
Pending(d) == PendingSum(BagToSet(active), d)
Consumed(d) == StartSeats(d._id) - d.seats_available

Quiet == BagToSet(active) = {}
AnsweredReservation == last.op = "create_reservation" /\ last.status # 0

(***************************************************************************)
(* Properties.                                                             *)
(***************************************************************************)
\* C1: for every Event, 0 <= seats_available <= seats_total in every
\* reachable state, whatever reservation requests ran, succeeded or failed,
\* and however they interleaved.
C1_SeatsWithinTotal ==
    \A d \in event : 0 <= d.seats_available /\ d.seats_available <= d.seats_total

\* A request has just lost a race (409) on an event that is now sold out.
C1_Witness ==
    /\ last.status = 409
    /\ \E d \in event : d.seats_available = 0 /\ \E e \in last.event_l : e._id = d._id

\* C2 as claimed: of two simultaneous requests for 3 tickets on an event with
\* 5 seats, exactly one succeeds, leaving 2, and the other fails with 409.
C2_AsClaimed ==
    ~failed =>
        /\ AnsweredReservation => last.status \in {200, 409}
        /\ (calls = 2 /\ Quiet) =>
              Cardinality(reservation) = 1 /\ \A d \in event : d.seats_available = 2

\* C2, amended: without a storage failure exactly one of the two succeeds,
\* leaving 2 seats; the other fails with 409 when it read the 5 seats before
\* the winner's decrement, and with 400 when it read the 2 seats after it.
C2_OneWinner ==
    /\ Cardinality(reservation) <= 1
    /\ \A d \in event : d.seats_available \in {2, 5}
    /\ ~failed =>
        /\ AnsweredReservation => last.status \in {200, 400, 409}
        /\ last.status = 409 =>
              \E e \in last.event_l : e.seats_available = 5 /\ CurrentSeats(e._id) = 2
        /\ last.status = 400 => \E e \in last.event_l : e.seats_available = 2
        /\ (calls = 2 /\ Quiet) =>
              /\ Cardinality(reservation) = 1
              /\ \A d \in event : d.seats_available = 2

\* Both requests are answered, nothing failed, and the second answer is 409.
C2_Witness == calls = 2 /\ Quiet /\ ~failed /\ last.status = 409

\* C3: a Reservation is recorded only after its request's conditional
\* decrement succeeded, so for each Event the tickets recorded, and those
\* about to be, never exceed the seats taken from it, also when the insert
\* fails after the decrement.
C3_NeverOversold ==
    /\ \A d \in event : Recorded(d) + Pending(d) <= Consumed(d)
    /\ (AnsweredReservation /\ last.status = 200) => last.attempts = 1 /\ last.writes = 2

\* An insert failed after its decrement: seats are taken that no Reservation
\* records, while another Reservation for the same event is recorded.
C3_Witness ==
    /\ Quiet
    /\ \E d \in event : Recorded(d) > 0 /\ Recorded(d) < Consumed(d)

\* C4: a valid request naming no existing Event is answered 404 (unless the
\* store fails), and a request answered 404 has changed nothing.
C4_NotFound ==
    /\ (AnsweredReservation /\ last.status \notin {422, 500}
            /\ \A d \in event : ~Names(last.res.event_id, d))
         => last.status = 404
    /\ (AnsweredReservation /\ last.status = 404)
         => last.writes = 0 /\ last.attempts = 0 /\ last.event_l = {}

\* A request for a missing event is answered 404 while other events exist.
C4_Witness ==
    /\ last.status = 404
    /\ event # {}
    /\ \A d \in event : ~Names(last.res.event_id, d)

\* C5 as claimed, for the first request of a behaviour: when it asks for
\* exactly the N seats its event has left, it succeeds and leaves 0.
C5_AsClaimed ==
    (calls = 1 /\ Quiet /\ AnsweredReservation /\ ~failed) =>
        \A d \in Lookup(event, last.res.event_id) :
            StartSeats(d._id) = last.res.tickets
                => last.status = 200 /\ d.seats_available = 0

\* C5, amended: for 1 <= N <= 10, a request for exactly the N seats left,
\* served with no other request running and no storage failure, succeeds and
\* leaves 0; a request that finds 0 seats left fails with 400 or 409.
C5_ExactFit ==
    /\ (AnsweredReservation /\ last.status # 500 /\ last.alone
            /\ last.res.tickets >= MinTickets /\ last.res.tickets <= MaxTickets)
         => \A e \in last.event_l :
                e.seats_available = last.res.tickets
                    => last.status = 200 /\ CurrentSeats(e._id) = 0
    /\ (AnsweredReservation /\ last.status # 500)
         => \A e \in last.event_l :
                e.seats_available = 0 => last.status \in {400, 409}

\* After a reservation for all the seats an event had, a request for 1 ticket
\* finds 0 seats and is refused.
C5_Witness ==
    /\ last.status = 400
    /\ last.res.tickets = 1
    /\ \E e \in last.event_l :
          /\ e.seats_available = 0
          /\ \E r \in reservation : r.tickets = StartSeats(e._id) /\ Names(r.event_id, e)

\* C9: a request is answered 409 only when its pre-check passed and another
\* request, running at the same time, took seats between its read and its
\* conditional decrement; no request makes the conditional decrement twice;
\* so requests served one after another never end in 409.
C9_ConflictOnlyByRace ==
    /\ \A a \in BagToSet(active) \cup {last} : a.attempts <= 1
    /\ last.status = 409 =>
          /\ ~last.alone
          /\ last.attempts = 1
          /\ \E e \in last.event_l :
                /\ e.seats_available >= last.res.tickets
                /\ CurrentSeats(e._id) < last.res.tickets

\* A request is answered 409.
C9_Witness ==
    /\ last.status = 409
    /\ last.attempts = 1
    /\ \E e \in last.event_l : CurrentSeats(e._id) < e.seats_available

\* C10: a request answered 400 or 409 has changed nothing in the store.
C10_RejectedChangesNothing ==
    (AnsweredReservation /\ last.status \in {400, 409}) => last.writes = 0

\* A request is refused while other requests have taken seats and recorded
\* a reservation.
C10_Witness ==
    /\ last.status \in {400, 409}
    /\ last.writes = 0
    /\ reservation # {}

\* C6: seed calls served one after another (none failing) leave exactly one
\* set of demo content on a store that had no Event, whatever their number,
\* and leave a store that had an Event as it was: a call that finds an Event
\* writes nothing.
C6_SeedIdempotent ==
    LET admin == {d \in event : d.created_at < 0}
    IN  /\ (Quiet /\ ~failed /\ ~seeding.overlapped /\ seeding.completed >= 1) =>
              IF admin = {}
              THEN /\ Cardinality(theater) = 1
                   /\ Cardinality(ownerprofile) = 2
                   /\ Cardinality(event) = 3
                   /\ Cardinality(video) = 1
              ELSE /\ theater = {} /\ ownerprofile = {} /\ video = {}
                   /\ event = admin
        /\ (last.op = "seed" /\ last.status = 200 /\ ~failed /\ ~seeding.overlapped) =>
              last.writes = (IF seeding.completed = 1 /\ admin = {} THEN 7 ELSE 0)

\* A second seed call, after the first, has written nothing.
C6_Witness ==
    /\ seeding.completed >= 2
    /\ ~seeding.overlapped
    /\ ~failed
    /\ last.op = "seed"
    /\ last.writes = 0
    /\ Cardinality(event) = 3

\* C7: GET /api/video/current looks for the key of the month in which it
\* read the clock (line 140) and answers from its first look-up with a Video
\* of that key; it falls through only when no Video has that key,
\* and then answers with a Video of the greatest creation time, or with none
\* exactly when there is no Video at all.
C7_CurrentVideo ==
    /\ \A a \in BagToSet(active) \cup {last} :
          (a.op = "current_video" /\ a.pc = "L141") =>
              a.since <= now /\ a.key = month_key_of(a.since)
    /\ (last.op = "current_video" /\ last.status = 200 /\ last.pc = "L141") =>
          /\ \E d \in video :
                /\ d.month_key = last.key
                /\ last.ret = {[month_key |-> d.month_key, video_url |-> d.video_url]}
    /\ (last.op = "current_video" /\ last.status = 200 /\ last.pc = "V144") =>
          IF video = {} THEN last.ret = {}
          ELSE \E d \in video :
                  /\ \A o \in video : o.created_at <= d.created_at
                  /\ last.ret = {[month_key |-> d.month_key, video_url |-> d.video_url]}
    /\ \A a \in BagToSet(active) \cup {last} :
          (a.op = "current_video" /\ a.pc = "V144") =>
              \A d \in video : d.month_key = a.key => d.created_at >= 0

\* The fallback has answered with a Video of another month, the more recently
\* created of two.
C7_Witness ==
    /\ last.op = "current_video"
    /\ last.status = 200
    /\ last.pc = "V144"
    /\ Cardinality(video) >= 2
    /\ \E v \in last.ret : v.month_key # last.key

\* C8: GET /api/video/{month_key} answers with a Video of exactly that key,
\* and with none when no Video has it, whatever other Videos exist.
C8_VideoByMonth ==
    (last.op = "video_by_month" /\ last.status = 200) =>
        IF \E d \in video : d.month_key = last.key
        THEN \E d \in video :
                /\ d.month_key = last.key
                /\ last.ret = {[month_key |-> d.month_key, video_url |-> d.video_url]}
        ELSE last.ret = {}

\* A key no Video has is answered with none although Videos exist.
C8_Witness ==
    /\ last.op = "video_by_month"
    /\ last.status = 200
    /\ last.ret = {}
    /\ video # {}

====
